---- MODULE Spec2Model ----
(***************************************************************************)
(* The ownership and borrowing rules that the example programs of          *)
(* examples/ownership and dereference_examples.rs exercise, as one state   *)
(* machine per binding.  The operations are the statement forms the        *)
(* examples use: `let` (declare, shadow), `{ .. }` (scope entry and exit), *)
(* `&x`, `&mut x`, the last use of a reference, assignment / argument      *)
(* passing (move or copy), `.clone()` and a plain use of a binding.  The   *)
(* commented-out statements of the examples, marked ERROR there, are the   *)
(* rejected operations.                                                    *)
(***************************************************************************)
EXTENDS Integers, Sequences, FiniteSets, Bags

\* ---------------------------------------------------------------- bounds
MaxBindings == 2
MaxRefs == 2
MaxDepth == 2

\* The names the examples bind (`s` is shadowed in basics::main).
Names == {"s", "x"}
\* The declaration forms of the examples: `let mut s = String::from(..)` and
\* `let mut x = 5`.  A binding declared without `mut` behaves as one declared
\* with it of which no `&mut` is ever taken.
DeclForms ==
    {[name |-> "s", type |-> "String"], [name |-> "x", type |-> "i32"]}

VARIABLES
    table,     \* Seq of bindings, in declaration order; the index is the BindingId;
               \* .scope is the open scope that owns it, 0 once that scope is closed
    depth,     \* number of open scopes: scope k encloses scope k + 1
    refs,      \* the bag of active references [target, kind, scope]
    dropLog,   \* Seq of BindingIds, in the order their storage was released
    last       \* the last operation: [op, b, res]

vars == <<table, depth, refs, dropLog, last>>

\* The examples outside the per-binding machine, each with a state of its own:
VARIABLES
    lt,        \* a function definition with reference parameters, and a call of it
    runner,    \* the ownership runner: its arguments, position and the demos run
    demo,      \* the Result demo driver: its position, the file system, the output
    calc,      \* one call of a parsing function: its inputs, the build, the result
    words,     \* the first-word functions: the text and their results
    conv       \* a value passed through the Option/Result conversions

Idle == [phase |-> "idle"]
allvars ==
    <<table, depth, refs, dropLog, last, lt, runner, demo, calc, words, conv>>

\* ----------------------------------------------------- ownership states
Owned == [st |-> "Owned", n |-> 0]
Shared(k) == [st |-> "Shared", n |-> k]
Exclusive == [st |-> "Exclusive", n |-> 0]
MovedOut == [st |-> "MovedOut", n |-> 0]
Dropped == [st |-> "Dropped", n |-> 0]

Ids == 1..Len(table)
Top == depth
Open == 1..depth

\* Fixed-size primitives are duplicated on assignment / argument passing
\* (take_integer(x) leaves x valid); heap-backed values are moved.
classifyAlwaysMove(type) == "Move"
classify(type) == IF type = "i32" THEN "Copy" ELSE "Move"

Max(S) == CHOOSE m \in S : \A k \in S : k <= m

\* Name lookup: the innermost, latest `let` of that name shadows the
\* earlier ones; a name whose every binding is out of scope resolves to the
\* latest binding that had it.
Named(name) == {b \in Ids : table[b].name = name}
Visible(name) == {b \in Named(name) : table[b].scope \in Open}
Resolve(name) ==
    IF Visible(name) # {} THEN Max(Visible(name)) ELSE Max(Named(name))

\* `use(id, point)`: the binding must be neither moved out nor dropped.
UseCheckForgetDrop(b) ==
    IF table[b].state = MovedOut THEN "UseAfterMove" ELSE "ok"
UseCheckForgetMove(b) ==
    IF table[b].state = Dropped THEN "UseAfterDrop" ELSE "ok"
UseCheck(b) ==
    CASE table[b].state = MovedOut -> "UseAfterMove"
      [] table[b].state = Dropped -> "UseAfterDrop"
      [] OTHER -> "ok"

SetState(t, b, s) == [t EXCEPT ![b].state = s]

NewBinding(name, type, val) ==
    [name |-> name, scope |-> Top, type |-> type, state |-> Owned, val |-> val]

\* A rejected construct ends the analysis of the program: the examples keep
\* every rejected statement commented out.  The program also ends when its
\* outermost scope is closed.
Running == depth > 0 /\ last.res = "ok"

Done(op, b, res) ==
    /\ last' = [op |-> op, b |-> b, res |-> res]
    /\ UNCHANGED <<lt, runner, demo, calc, words, conv>>

\* ---------------------------------------------------------------- Init
Init ==
    /\ table = <<>>
    /\ depth = 1
    /\ refs = EmptyBag
    /\ dropLog = <<>>
    /\ last = [op |-> "start", b |-> 0, res |-> "ok"]
    /\ lt = Idle /\ runner = Idle /\ demo = Idle /\ calc = Idle /\ words = Idle
    /\ conv = Idle

\* `let [mut] name = <fresh value>;`
Declare(name, type) ==
    /\ Running
    /\ Len(table) < MaxBindings
    /\ table' = Append(table, NewBinding(name, type, Len(table) + 1))
    /\ Done("Declare", Len(table) + 1, "ok")
    /\ UNCHANGED <<depth, refs, dropLog>>

\* `{` or a function call's body
EnterScope ==
    /\ Running
    /\ depth < MaxDepth
    /\ depth' = depth + 1
    /\ Done("EnterScope", 0, "ok")
    /\ UNCHANGED <<table, refs, dropLog>>

\* ------------------------------------------------------------ borrowing
NewRef(b, kind) == SetToBag({[target |-> b, kind |-> kind, scope |-> Top]})

\* Any number of `&s` may coexist (r1, r2, r3 in demonstrate_multiple_borrows);
\* none may be taken while a `&mut s` is in use.
SharedBorrowCheckNoConflict(b) == UseCheck(b)
SharedBorrowCheck(b) ==
    CASE UseCheck(b) # "ok" -> UseCheck(b)
      [] table[b].state.st = "Exclusive" -> "BorrowConflict"
      [] OTHER -> "ok"

\* Only one `&mut s` at a time, and none while a `&s` is in use.
ExclBorrowCheckIgnoreShared(b) ==
    CASE UseCheck(b) # "ok" -> UseCheck(b)
      [] table[b].state.st = "Exclusive" -> "BorrowConflict"
      [] OTHER -> "ok"
ExclBorrowCheck(b) ==
    CASE UseCheck(b) # "ok" -> UseCheck(b)
      [] table[b].state.st \in {"Shared", "Exclusive"} -> "BorrowConflict"
      [] OTHER -> "ok"

AddSharedForgetCount(s) == Shared(1)
AddShared(s) == Shared(s.n + 1)

\* The state of a binding after one of its references has ended.
EndRefStateStuck(s) ==
    CASE s.st = "Shared" -> IF s.n = 1 THEN Owned ELSE Shared(s.n - 1)
      [] OTHER -> s
EndRefState(s) ==
    CASE s.st = "Shared" -> IF s.n = 1 THEN Owned ELSE Shared(s.n - 1)
      [] s.st = "Exclusive" -> Owned
      [] OTHER -> s

\* `let r = &name;` or passing `&name`: the reference is held in the current scope
BorrowShared(name) ==
    /\ Running
    /\ Named(name) # {}
    /\ LET b == Resolve(name)
           res == SharedBorrowCheck(b)
       IN /\ Done("BorrowShared", b, res)
          /\ IF res = "ok"
             THEN /\ BagCardinality(refs) < MaxRefs
                  /\ refs' = refs (+) NewRef(b, "shared")
                  /\ table' = SetState(table, b, AddShared(table[b].state))
             ELSE UNCHANGED <<table, refs>>
    /\ UNCHANGED <<depth, dropLog>>

\* `let r = &mut name;` or passing `&mut name`
BorrowExclusive(name) ==
    /\ Running
    /\ Named(name) # {}
    /\ LET b == Resolve(name)
           res == ExclBorrowCheck(b)
       IN /\ Done("BorrowExclusive", b, res)
          /\ IF res = "ok"
             THEN /\ BagCardinality(refs) < MaxRefs
                  /\ refs' = refs (+) NewRef(b, "exclusive")
                  /\ table' = SetState(table, b, Exclusive)
             ELSE UNCHANGED <<table, refs>>
    /\ UNCHANGED <<depth, dropLog>>

\* The last use of reference r: its lifetime ends there.
EndRef(r) ==
    /\ Running
    /\ BagIn(r, refs)
    /\ refs' = refs (-) SetToBag({r})
    /\ table' = SetState(table, r.target, EndRefState(table[r.target].state))
    /\ Done(IF r.kind = "exclusive" THEN "EndExclusive" ELSE "EndShared",
            r.target, "ok")
    /\ UNCHANGED <<depth, dropLog>>

\* ------------------------------------------------- move, copy, clone, use
\* Ownership can be given away only while nothing borrows the value.
TransferCheckIgnoreBorrows(b) == UseCheck(b)
TransferCheck(b) ==
    CASE UseCheck(b) # "ok" -> UseCheck(b)
      [] table[b].state.st \in {"Shared", "Exclusive"} -> "MoveWhileBorrowed"
      [] OTHER -> "ok"

\* Reading the value (to copy or clone it) is excluded only by a `&mut`.
ReadCheck(b) ==
    CASE UseCheck(b) # "ok" -> UseCheck(b)
      [] table[b].state.st = "Exclusive" -> "BorrowConflict"
      [] OTHER -> "ok"

\* `let to = name;` or `f(name)` with parameter `to`: a move or a copy,
\* as the type decides.
AssignOrPass(name, to) ==
    /\ Running
    /\ Named(name) # {}
    /\ LET b == Resolve(name)
           copy == classify(table[b].type) = "Copy"
           res == IF copy THEN ReadCheck(b) ELSE TransferCheck(b)
           new == Len(table) + 1
       IN /\ Done("AssignOrPass", b, res)
          /\ IF res = "ok"
             THEN /\ Len(table) < MaxBindings
                  /\ table' =
                       IF copy
                       THEN Append(table,
                              NewBinding(to, table[b].type, new))
                       ELSE Append(SetState(table, b, MovedOut),
                              NewBinding(to, table[b].type, table[b].val))
             ELSE UNCHANGED table
    /\ UNCHANGED <<depth, refs, dropLog>>

\* The table after `let to = b.clone();`: a new binding owning a new value.
CloneOfTakesValue(t, b, to) ==
    Append(SetState(t, b, MovedOut), NewBinding(to, t[b].type, t[b].val))
CloneOf(t, b, to) == Append(t, NewBinding(to, t[b].type, Len(t) + 1))

\* `let to = name.clone();`
Clone(name, to) ==
    /\ Running
    /\ Named(name) # {}
    /\ LET b == Resolve(name)
           res == ReadCheck(b)
       IN /\ Done("Clone", b, res)
          /\ IF res = "ok"
             THEN /\ Len(table) < MaxBindings
                  /\ table' = CloneOf(table, b, to)
             ELSE UNCHANGED table
    /\ UNCHANGED <<depth, refs, dropLog>>

\* `println!("{}", name)`
Use(name) ==
    /\ Running
    /\ Named(name) # {}
    /\ Done("Use", Resolve(name), UseCheck(Resolve(name)))
    /\ UNCHANGED <<table, depth, refs, dropLog>>

\* ------------------------------------------------------------ scope exit
\* The bindings of scope sc among the first k, latest declaration first.
RECURSIVE DropOrder(_, _)
DropOrder(sc, k) ==
    IF k = 0 THEN <<>>
    ELSE IF table[k].scope = sc
         THEN <<k>> \o DropOrder(sc, k - 1)
         ELSE DropOrder(sc, k - 1)

\* A binding whose value was moved away has nothing left to release.
HoldsValueAlways(s) == TRUE
HoldsValue(s) == s # MovedOut

\* Dropping the bindings of `order` one by one, releasing what they still hold.
DropEachNothing(t, log, order) == <<t, log>>
RECURSIVE DropEach(_, _, _)
DropEach(t, log, order) ==
    IF order = <<>> THEN <<t, log>>
    ELSE LET b == Head(order)
         IN IF HoldsValue(t[b].state)
            THEN DropEach(SetState(t, b, Dropped), Append(log, b), Tail(order))
            ELSE DropEach(t, log, Tail(order))

\* The bindings of the closed scope sc belong to no open scope any more.
Close(t, sc) ==
    [b \in DOMAIN t |-> IF t[b].scope = sc THEN [t[b] EXCEPT !.scope = 0] ELSE t[b]]

\* The references held by scope sc, as a sub-bag of refs.
HeldIn(sc) ==
    LET D == {r \in BagToSet(refs) : r.scope = sc}
    IN [r \in D |-> refs[r]]

NoRef == [target |-> 0, kind |-> "none", scope |-> 0]

\* A reference handed to the enclosing scope (a function's returned
\* reference) must not point at a binding of the scope that ends.
ReturnCheckNone(r) == "ok"
ReturnCheck(r) ==
    IF r # NoRef /\ table[r.target].scope = Top
    THEN "LifetimeViolation" ELSE "ok"

\* `}` or a function's return.  Every reference held in the scope has had its
\* last use by now, except ret (if any), which passes to the enclosing scope
\* as the value of the block or call; then the bindings of the scope are
\* dropped.
ExitScope(ret) ==
    /\ Running
    /\ ret = NoRef \/ (BagIn(ret, refs) /\ ret.scope = Top /\ depth > 1)
    /\ LET sc == Top
           res == ReturnCheck(ret)
           kept == IF ret = NoRef THEN EmptyBag ELSE SetToBag({ret})
           moved == IF ret = NoRef THEN EmptyBag
                    ELSE SetToBag({[ret EXCEPT !.scope = sc - 1]})
           out == DropEach(table, dropLog, DropOrder(sc, Len(table)))
       IN /\ HeldIn(sc) = kept
          /\ Done("ExitScope", 0, res)
          /\ IF res = "ok"
             THEN /\ depth' = depth - 1
                  /\ refs' = (refs (-) kept) (+) moved
                  /\ table' = Close(out[1], sc)
                  /\ dropLog' = out[2]
             ELSE UNCHANGED <<table, depth, refs, dropLog>>

Next ==
    \/ \E d \in DeclForms : Declare(d.name, d.type)
    \/ EnterScope
    \/ \E ret \in BagToSet(refs) \cup {NoRef} : ExitScope(ret)
    \/ \E name \in Names : BorrowShared(name)
    \/ \E name \in Names : BorrowExclusive(name)
    \/ \E r \in BagToSet(refs) : EndRef(r)
    \/ \E name \in Names, to \in Names : AssignOrPass(name, to)
    \/ \E name \in Names, to \in Names : Clone(name, to)
    \/ \E name \in Names : Use(name)

Spec == Init /\ [][Next]_allvars

\* The per-binding machine at rest, while another example is looked at.
NoBindings ==
    /\ table = <<>> /\ depth = 0 /\ refs = EmptyBag /\ dropLog = <<>>
    /\ last = [op |-> "start", b |-> 0, res |-> "ok"]

\* ------------------------------------------------- lifetimes of signatures
MaxParams == 2
MaxPoint == 2

\* A region written in a signature: 'a, 'b, 'static, or none (elided).
Regions == {"a", "b", "static", "elided"}
\* The end of the whole-of-process region lies after every program point.
Forever == MaxPoint + 1

\* A definition `fn f(x1: &R1 str, ..) -> &R str { .. }`: the regions of its
\* reference parameters, the region of its result, and what the returned
\* value derives from (parameter i, or 0 for a string literal of the body).
Signatures ==
    UNION {[ins : [1..n -> Regions], out : Regions,
            from : (SUBSET (0..n)) \ {{}}] : n \in 0..MaxParams}

\* Elision: an unnamed parameter region is a region of its own; an unnamed
\* result region is the region of the only reference parameter, and cannot
\* be inferred when there are several or none (the first `longest`).
InRegion(sig, i) ==
    IF sig.ins[i] = "elided" THEN <<"in", i>> ELSE sig.ins[i]
OutRegion(sig) ==
    IF sig.out # "elided" THEN sig.out
    ELSE IF Len(sig.ins) = 1 THEN InRegion(sig, 1) ELSE "missing"

\* The region of what is returned: a literal lives for the whole process.
SourceRegion(sig, i) == IF i = 0 THEN "static" ELSE InRegion(sig, i)

\* The definition is accepted when the result region is known and everything
\* returned either lives for the whole process or carries the result region.
CheckDefinitionNoStatic(sig) ==
    IF OutRegion(sig) = "missing" THEN "LifetimeViolation"
    ELSE IF \A i \in sig.from : SourceRegion(sig, i) = OutRegion(sig)
         THEN "ok" ELSE "LifetimeViolation"
CheckDefinition(sig) ==
    IF OutRegion(sig) = "missing" THEN "LifetimeViolation"
    ELSE IF \A i \in sig.from :
              \/ SourceRegion(sig, i) = "static"
              \/ SourceRegion(sig, i) = OutRegion(sig)
         THEN "ok" ELSE "LifetimeViolation"

Min(S) == CHOOSE m \in S : \A k \in S : m <= k

\* At a call the result region is the part common to the arguments whose
\* parameters carry it ("lives as long as the shortest input").
OutEndLongest(sig, ends) ==
    LET tied == {i \in 1..Len(sig.ins) : InRegion(sig, i) = OutRegion(sig)}
    IN IF OutRegion(sig) = "static" \/ tied = {} THEN Forever
       ELSE Max({ends[i] : i \in tied})
OutEnd(sig, ends) ==
    LET tied == {i \in 1..Len(sig.ins) : InRegion(sig, i) = OutRegion(sig)}
    IN IF OutRegion(sig) = "static" \/ tied = {} THEN Forever
       ELSE Min({ends[i] : i \in tied})

\* The last program point at which each argument's referent is live; the
\* argument of a 'static parameter lives for the whole process.
ArgEnds(sig) ==
    {e \in [1..Len(sig.ins) -> 1..Forever] :
        \A i \in 1..Len(sig.ins) : e[i] = Forever <=> sig.ins[i] = "static"}

LifetimeInit ==
    /\ NoBindings /\ runner = Idle /\ demo = Idle /\ calc = Idle /\ words = Idle
    /\ conv = Idle
    /\ \E sig \in Signatures :
         lt = [phase |-> "written", sig |-> sig, verdict |-> "none",
               ends |-> <<>>, outEnd |-> 0]

\* The compiler looks at the definition.
Define ==
    /\ lt.phase = "written"
    /\ lt' = [lt EXCEPT !.phase = "checked", !.verdict = CheckDefinition(lt.sig)]
    /\ UNCHANGED <<vars, runner, demo, calc, words, conv>>

\* `let result = f(&x1, ..);` of an accepted definition.
Call ==
    /\ lt.phase = "checked" /\ lt.verdict = "ok"
    /\ \E e \in ArgEnds(lt.sig) :
         lt' = [lt EXCEPT !.phase = "called", !.ends = e,
                          !.outEnd = OutEnd(lt.sig, e)]
    /\ UNCHANGED <<vars, runner, demo, calc, words, conv>>

LifetimeNext == Define \/ Call

SpecLifetime == LifetimeInit /\ [][LifetimeNext]_allvars

\* =================================================================== claims

\* --------------------------------------------- parsing text into an i32
MaxLen == 2

I32Max == 2147483647
I32Min == -I32Max - 1

\* A text is a sequence of characters.
DigitChars == <<"0", "1", "2", "3", "4", "5", "6", "7", "8", "9">>
IsDigit(c) == \E d \in 1..10 : DigitChars[d] = c
DigitVal(c) == (CHOOSE d \in 1..10 : DigitChars[d] = c) - 1

RECURSIVE Decimal(_)
Decimal(n) ==
    IF n < 10 THEN <<DigitChars[n + 1]>>
    ELSE Append(Decimal(n \div 10), DigitChars[(n % 10) + 1])

Ok(v) == [tag |-> "Ok", val |-> v]
Err(e) == [tag |-> "Err", val |-> e]
Panic == [tag |-> "Panic", val |-> "arithmetic overflow"]

\* str::parse::<i32>: an optional sign, then decimal digits read from the
\* left into a 32-bit accumulator; the first character that is no digit, or
\* the first step that leaves the 32-bit range, is the error.
RECURSIVE ParseDigits(_, _, _, _)
ParseDigits(t, i, acc, neg) ==
    IF i > Len(t) THEN Ok(acc)
    ELSE IF ~IsDigit(t[i]) THEN Err("InvalidDigit")
    ELSE LET d == DigitVal(t[i])
         IN IF neg
            THEN IF acc < I32Min \div 10 + 1 \/ acc * 10 < I32Min + d
                 THEN Err("NegOverflow")
                 ELSE ParseDigits(t, i + 1, acc * 10 - d, neg)
            ELSE IF acc > I32Max \div 10 \/ acc * 10 > I32Max - d
                 THEN Err("PosOverflow")
                 ELSE ParseDigits(t, i + 1, acc * 10 + d, neg)

ParseI32(t) ==
    IF t = <<>> THEN Err("Empty")
    ELSE IF t \in {<<"+">>, <<"-">>} THEN Err("InvalidDigit")
    ELSE IF t[1] = "-" THEN ParseDigits(t, 2, 0, TRUE)
    ELSE IF t[1] = "+" THEN ParseDigits(t, 2, 0, FALSE)
    ELSE ParseDigits(t, 1, 0, FALSE)

\* Whether the mathematical sum x + y is an i32.
SumFits(x, y) ==
    /\ (x > 0 /\ y > 0) => x <= I32Max - y
    /\ (x < 0 /\ y < 0) => x >= I32Min - y

\* x + y reduced modulo 2^32 into the i32 range.
WrappingAdd(x, y) ==
    IF SumFits(x, y) THEN x + y
    ELSE IF x > 0 THEN (x - I32Max - 1) + (y - I32Max - 1)
    ELSE (x + I32Max + 1) + (y + I32Max + 1)

\* `x + y` on i32: when the sum leaves the range, a build with overflow
\* checks panics and a build without them wraps.
Builds == {"debug", "release"}
AddI32(x, y, build) ==
    IF SumFits(x, y) THEN Ok(x + y)
    ELSE IF build = "debug" THEN Panic ELSE Ok(WrappingAdd(x, y))
\* `n * 2` on i32 (2n = n + n).
MulI32By2(n, build) == AddI32(n, n, build)

\* s.parse::<i32>().and_then(|n| Ok(n * 2))
parse_and_double(s, build) ==
    LET r == ParseI32(s)
    IN IF r.tag = "Ok" THEN MulI32By2(r.val, build) ELSE r

\* s.parse::<i32>().map(|n| n + 10).map_err(|e| format!("Parse error: {}", e))
parse_with_custom_error(s, build) ==
    LET r == ParseI32(s)
    IN IF r.tag = "Ok" THEN AddI32(r.val, 10, build)
       ELSE Err(<<"Parse error: ", r.val>>)

\* let num_a = a.parse::<i32>()?; let num_b = b.parse::<i32>()?; Ok(num_a + num_b)
\* together with the arguments it parsed, in order.
process_two_numbers_ParsesBoth(a, b, build) ==
    LET ra == ParseI32(a)
        rb == ParseI32(b)
    IN [parsed |-> <<"a", "b">>,
        res |-> IF rb.tag = "Err" THEN rb
                ELSE IF ra.tag = "Err" THEN ra
                ELSE AddI32(ra.val, rb.val, build)]
process_two_numbers(a, b, build) ==
    LET ra == ParseI32(a)
    IN IF ra.tag = "Err" THEN [parsed |-> <<"a">>, res |-> ra]
       ELSE LET rb == ParseI32(b)
            IN [parsed |-> <<"a", "b">>,
                res |-> IF rb.tag = "Err" THEN rb
                        ELSE AddI32(ra.val, rb.val, build)]

\* The texts tried: every short text over a few characters, the texts the
\* driver passes, and numbers at the ends of the range and of the range
\* halved.
Chars == {"1", "7", "-", "+", "x"}
ShortTexts == UNION {[1..n -> Chars] : n \in 0..MaxLen}
DriverTexts == {Decimal(21), Decimal(42), Decimal(5), Decimal(10), Decimal(123)}
EdgeTexts ==
    {Decimal(I32Max), Decimal(I32Max - 10), Decimal(I32Max - 9),
     Decimal(I32Max \div 2), Decimal(I32Max \div 2 + 1),
     Append(Decimal(I32Max \div 10), "8"),
     <<"-">> \o Append(Decimal(I32Max \div 10), "8"),
     <<"-">> \o Append(Decimal(I32Max \div 10), "9"),
     <<"-">> \o Decimal(I32Max \div 2 + 1),
     <<"-">> \o Decimal(I32Max \div 2 + 2)}
Texts == ShortTexts \cup DriverTexts \cup EdgeTexts

ParseInit ==
    /\ NoBindings /\ lt = Idle /\ runner = Idle /\ demo = Idle /\ words = Idle
    /\ conv = Idle
    /\ \E a \in Texts, b \in Texts, build \in Builds :
         calc = [phase |-> "ready", fn |-> "none", a |-> a, b |-> b,
                 build |-> build, res |-> Ok(0), parsed |-> <<>>]

\* The call has returned res, having parsed the arguments listed.
Returned(c, fn, res, parsed) ==
    [c EXCEPT !.phase = "returned", !.fn = fn, !.res = res, !.parsed = parsed]

CallParseAndDouble ==
    /\ calc.phase = "ready"
    /\ calc' = Returned(calc, "parse_and_double",
                        parse_and_double(calc.a, calc.build), <<"a">>)
    /\ UNCHANGED <<vars, lt, runner, demo, words, conv>>

CallParseWithCustomError ==
    /\ calc.phase = "ready"
    /\ calc' = Returned(calc, "parse_with_custom_error",
                        parse_with_custom_error(calc.a, calc.build), <<"a">>)
    /\ UNCHANGED <<vars, lt, runner, demo, words, conv>>

CallProcessTwoNumbers ==
    /\ calc.phase = "ready"
    /\ LET r == process_two_numbers(calc.a, calc.b, calc.build)
       IN calc' = Returned(calc, "process_two_numbers", r.res, r.parsed)
    /\ UNCHANGED <<vars, lt, runner, demo, words, conv>>

ParseNext ==
    CallParseAndDouble \/ CallParseWithCustomError \/ CallProcessTwoNumbers

SpecParse == ParseInit /\ [][ParseNext]_allvars



\* ------------------------------------------------ the Result demo driver
\* What the file system answers for the path the driver reads: the open
\* fails, or the read fails, or the file's text is read.
OpenErrors == {"NotFound", "PermissionDenied"}
ReadErrors == {"InvalidData", "IoError"}
FileSystems ==
    [open : OpenErrors, read : {"ok"}, text : {<<>>}]
        \cup [open : {"ok"}, read : ReadErrors, text : {<<>>}]
        \cup [open : {"ok"}, read : {"ok"}, text : ShortTexts]

\* let mut file = File::open(path)?; file.read_to_string(&mut contents)?;
\* Ok(contents) -- together with the calls made to the file system.
read_file_contents_ReadsAnyway(fs) ==
    [calls |-> <<"open", "read_to_string">>,
     res |-> IF fs.read # "ok" THEN Err(fs.read)
             ELSE IF fs.open # "ok" THEN Err(fs.open) ELSE Ok(fs.text)]
read_file_contents(fs) ==
    IF fs.open # "ok" THEN [calls |-> <<"open">>, res |-> Err(fs.open)]
    ELSE [calls |-> <<"open", "read_to_string">>,
          res |-> IF fs.read # "ok" THEN Err(fs.read) ELSE Ok(fs.text)]

\* s.map(|s| s.parse::<i32>()).transpose() of Some(s).
parse_optional_number(s) == ParseI32(s)

NotANumber == <<"n", "o", "t", "_", "a", "_", "n", "u", "m", "b", "e", "r">>

\* A printed line: the example it belongs to, whether it is the heading, an
\* Ok arm or an Err arm, and the heading, label or error cause printed.
Line(ex, kind, what) == [ex |-> ex, kind |-> kind, what |-> what]
\* The line a `match` on r prints.
Arm(ex, r, label) ==
    IF r.tag = "Ok" THEN Line(ex, "ok", label) ELSE Line(ex, "err", r.val)

LastExample == 11
Finished == LastExample + 1
Aborted == 0

\* The examples that call nothing that can fail at run time, with the lines
\* they print: divide and safe_sqrt on constants, get_config_value with
\* unwrap_or, handle_result_with_match, the conversions, is_ok / is_err.
PlainLines(ex) ==
    CASE ex = 1 -> <<Line(1, "header", "1. Basic Result:"),
                     Line(1, "ok", "10 / 2 = 5"),
                     Line(1, "err", "Cannot divide by zero")>>
      [] ex = 2 -> <<Line(2, "header", "2. Custom Error Types:"),
                     Line(2, "ok", "sqrt(16) = 4"),
                     Line(2, "err", "NegativeSquareRoot")>>
      [] ex = 6 -> <<Line(6, "header", "6. unwrap_or and unwrap_or_else:"),
                     Line(6, "ok", "Username: admin"),
                     Line(6, "err", "Key not found"),
                     Line(6, "ok", "Missing key value: default")>>
      [] ex = 8 -> <<Line(8, "header", "8. Pattern Matching:"),
                     Line(8, "ok", "Handled value: 42"),
                     Line(8, "err", "Something went wrong"),
                     Line(8, "ok", "Handled error value: 0")>>
      [] ex = 9 -> <<Line(9, "header", "9. Result and Option Conversion:"),
                     Line(9, "ok", "Some(100)"),
                     Line(9, "ok", "Ok(200)"),
                     Line(9, "err", "Value was None")>>
      [] ex = 11 -> <<Line(11, "header", "11. Checking Result state:"),
                      Line(11, "ok", "Is Ok? true"),
                      Line(11, "ok", "Is Err? false")>>

\* The driver after an example that printed lines; a panic in one of the
\* results rs ends the program instead.
After(d, rs, lines) ==
    IF \E k \in 1..Len(rs) : rs[k].tag = "Panic"
    THEN [d EXCEPT !.pc = Aborted]
    ELSE [d EXCEPT !.pc = @ + 1, !.out = @ \o lines]

DriverInit ==
    /\ NoBindings /\ lt = Idle /\ runner = Idle /\ calc = Idle /\ words = Idle
    /\ conv = Idle
    /\ \E fs \in FileSystems, build \in Builds :
         demo = [pc |-> 1, fs |-> fs, build |-> build, out |-> <<>>,
                 file |-> [calls |-> <<>>, res |-> Ok(<<>>)]]

PlainExample ==
    /\ demo.pc \in {1, 2, 6, 8, 9, 11}
    /\ demo' = After(demo, <<>>, PlainLines(demo.pc))
    /\ UNCHANGED <<vars, lt, runner, calc, words, conv>>

\* match read_file_contents("nonexistent.txt")
Example3 ==
    /\ demo.pc = 3
    /\ LET r == read_file_contents(demo.fs)
       IN demo' = [After(demo, <<r.res>>,
                         <<Line(3, "header", "3. ? Operator (file reading):"),
                           Arm(3, r.res, "File contents")>>)
                     EXCEPT !.file = r]
    /\ UNCHANGED <<vars, lt, runner, calc, words, conv>>

\* match parse_and_double("21")
Example4 ==
    /\ demo.pc = 4
    /\ LET r == parse_and_double(Decimal(21), demo.build)
       IN demo' = After(demo, <<r>>,
                        <<Line(4, "header", "4. Chaining with and_then:"),
                          Arm(4, r, "Parsed and doubled")>>)
    /\ UNCHANGED <<vars, lt, runner, calc, words, conv>>

\* match parse_with_custom_error("42"), then ("not_a_number"); the Err arm
\* prints the message, which ends in the cause.
Example5 ==
    /\ demo.pc = 5
    /\ LET r1 == parse_with_custom_error(Decimal(42), demo.build)
           r2 == parse_with_custom_error(NotANumber, demo.build)
           Shown(r) == IF r.tag = "Err" THEN Err(r.val[2]) ELSE r
       IN demo' = After(demo, <<r1, r2>>,
                        <<Line(5, "header", "5. Using map and map_err:"),
                          Arm(5, Shown(r1), "Parsed + 10"),
                          Arm(5, Shown(r2), "Parsed + 10")>>)
    /\ UNCHANGED <<vars, lt, runner, calc, words, conv>>

\* match process_two_numbers("5", "10")
Example7 ==
    /\ demo.pc = 7
    /\ LET r == process_two_numbers(Decimal(5), Decimal(10), demo.build).res
       IN demo' = After(demo, <<r>>,
                        <<Line(7, "header", "7. Combining Multiple Results:"),
                          Arm(7, r, "Sum")>>)
    /\ UNCHANGED <<vars, lt, runner, calc, words, conv>>

\* match parse_optional_number(Some("123"))
Example10 ==
    /\ demo.pc = 10
    /\ LET r == parse_optional_number(Decimal(123))
       IN demo' = After(demo, <<r>>,
                        <<Line(10, "header", "10. Using transpose:"),
                          Arm(10, r, "Parsed optional")>>)
    /\ UNCHANGED <<vars, lt, runner, calc, words, conv>>

DriverNext ==
    \/ PlainExample
    \/ Example3
    \/ Example4
    \/ Example5
    \/ Example7
    \/ Example10

\* The driver is a sequential program: it keeps running until it returns.
SpecDriver ==
    DriverInit /\ [][DriverNext]_allvars /\ WF_allvars(DriverNext)

\* -------------------------------------------------- the ownership runner
MaxArgs == 2

\* The demos in the order of the menu, by the module each lives in.
Demos == <<"basics", "borrowing", "mutable_borrowing", "string_types",
           "lifetimes">>
\* Whether the module's `main` is declared `pub`.
PubMain ==
    [basics |-> TRUE, borrowing |-> FALSE, mutable_borrowing |-> FALSE,
     string_types |-> FALSE, lifetimes |-> FALSE]
\* The runner is the crate root and calls `ownership::<module>::main()` for
\* every module; a private function of a child module is not visible there,
\* and one such call keeps the whole runner from compiling.
Compiles == \A k \in 1..Len(Demos) : PubMain[Demos[k]]

\* What can follow the program's name on the command line.
ArgValues == {"1", "2", "3", "4", "5", "all", "6", "x"}
ArgVectors ==
    {<<"ownership">> \o a : a \in UNION {[1..n -> ArgValues] : n \in 0..MaxArgs}}

print_menu == <<"menu">>

RECURSIVE RunAll(_)
\* The "all" arm: demos k..5 with a line of "=" between two of them.
RunAll(k) ==
    IF k = Len(Demos) THEN <<Demos[k]>>
    ELSE <<Demos[k], "=====">> \o RunAll(k + 1)

\* main of the runner: what it runs and prints, in order.
ownership_runner_main(args) ==
    IF Len(args) > 1
    THEN LET choice == args[2]
         IN CASE choice = "1" -> <<Demos[1]>>
              [] choice = "2" -> <<Demos[2]>>
              [] choice = "3" -> <<Demos[3]>>
              [] choice = "4" -> <<Demos[4]>>
              [] choice = "5" -> <<Demos[5]>>
              [] choice = "all" -> RunAll(1)
              [] OTHER -> <<"Invalid choice">> \o print_menu
    ELSE print_menu

RunnerInit ==
    /\ NoBindings /\ lt = Idle /\ demo = Idle /\ calc = Idle /\ words = Idle
    /\ conv = Idle
    /\ \E args \in ArgVectors :
         runner = [phase |-> "ready", args |-> args, built |-> FALSE,
                   out |-> <<>>]

\* `cargo run --example ownership <args>`: build the runner, then run it.
CargoRun ==
    /\ runner.phase = "ready"
    /\ runner' = IF Compiles
                 THEN [runner EXCEPT !.phase = "exited", !.built = TRUE,
                                     !.out = ownership_runner_main(runner.args)]
                 ELSE [runner EXCEPT !.phase = "exited"]
    /\ UNCHANGED <<vars, lt, demo, calc, words, conv>>

RunnerNext == CargoRun

SpecRunner == RunnerInit /\ [][RunnerNext]_allvars


\* ------------------------------------------------ the first word of a text
MaxWordLen == 3

\* The characters tried, with their UTF-8 encodings: a letter, the space, a
\* two-byte letter, and the no-break space (two bytes, none of them b' ').
WordChars == {"a", " ", "e-acute", "nbsp"}
Utf8(c) ==
    CASE c = "a" -> <<97>>
      [] c = " " -> <<32>>
      [] c = "e-acute" -> <<195, 169>>
      [] c = "nbsp" -> <<194, 160>>
WordTexts == UNION {[1..n -> WordChars] : n \in 0..MaxWordLen}

RECURSIVE as_bytes(_)
as_bytes(s) == IF s = <<>> THEN <<>> ELSE Utf8(Head(s)) \o as_bytes(Tail(s))

\* &s[0..i]: the characters encoded by the first i bytes; slicing inside a
\* character panics.
SliceTo(s, i) ==
    LET ks == {k \in 0..Len(s) : Len(as_bytes(SubSeq(s, 1, k))) = i}
    IN IF ks = {} THEN Panic ELSE Ok(SubSeq(s, 1, CHOOSE k \in ks : TRUE))

\* The first (i, byte) of bytes.iter().enumerate() with byte == b' ' returns
\* &s[0..i]; without one the function returns s.
get_first_word_ThroughSpace(s) ==
    LET bytes == as_bytes(s)
        hits == {i \in 0..(Len(bytes) - 1) : bytes[i + 1] = 32}
    IN IF hits = {} THEN Ok(s) ELSE SliceTo(s, Min(hits) + 1)
get_first_word(s) ==
    LET bytes == as_bytes(s)
        hits == {i \in 0..(Len(bytes) - 1) : bytes[i + 1] = 32}
    IN IF hits = {} THEN Ok(s) ELSE SliceTo(s, Min(hits))

first_word(s) ==
    LET bytes == as_bytes(s)
        hits == {i \in 0..(Len(bytes) - 1) : bytes[i + 1] = 32}
    IN IF hits = {} THEN Ok(s) ELSE SliceTo(s, Min(hits))

NotCalled == [tag |-> "NotCalled", val |-> <<>>]

WordsInit ==
    /\ NoBindings /\ lt = Idle /\ runner = Idle /\ demo = Idle /\ calc = Idle
    /\ conv = Idle
    /\ \E s \in WordTexts :
         words = [s |-> s, get_first_word |-> NotCalled, first_word |-> NotCalled]

CallGetFirstWord ==
    /\ words.get_first_word = NotCalled
    /\ words' = [words EXCEPT !.get_first_word = get_first_word(words.s)]
    /\ UNCHANGED <<vars, lt, runner, demo, calc, conv>>

CallFirstWord ==
    /\ words.first_word = NotCalled
    /\ words' = [words EXCEPT !.first_word = first_word(words.s)]
    /\ UNCHANGED <<vars, lt, runner, demo, calc, conv>>

WordsNext == CallGetFirstWord \/ CallFirstWord

SpecWords == WordsInit /\ [][WordsNext]_allvars


\* ------------------------------------- converting between Option and Result
MaxInt == 10
MaxCalls == 2

\* Option<i32>.
None == [tag |-> "None"]
Some(v) == [tag |-> "Some", val |-> v]
IsOption(x) == x.tag \in {"Some", "None"}
IsResult(x) == x.tag \in {"Ok", "Err"}

\* r.ok(): the value of an Ok, nothing for an Err (the error is dropped).
result_to_option_AlwaysNone(r) == None
result_to_option(r) == IF r.tag = "Ok" THEN Some(r.val) ELSE None

\* o.ok_or(String::from("Value was None"))
option_to_result(o) ==
    IF o.tag = "Some" THEN Ok(o.val) ELSE Err("Value was None")

\* The integers tried: the small ones, the driver's, and the ends of i32.
ConvInts == (-MaxInt..MaxInt) \cup {42, 100, 200, I32Min, I32Max}
ConvErrors == {"Something went wrong", "Value was None", ""}
OptionValues == {None} \cup {Some(n) : n \in ConvInts}
OkValues == {Ok(n) : n \in ConvInts}
ErrValues == {Err(e) : e \in ConvErrors}
\* The values a round trip can start from, by kind.
StartValues(kind) ==
    CASE kind = "option" -> OptionValues
      [] kind = "ok" -> OkValues
      [] kind = "err" -> ErrValues

ConvInit ==
    /\ NoBindings
    /\ lt = Idle /\ runner = Idle /\ demo = Idle /\ calc = Idle /\ words = Idle
    /\ \E kind \in {"option", "ok", "err"} : \E x \in StartValues(kind) :
         conv = [start |-> x, cur |-> x, calls |-> <<>>]

\* let res = option_to_result(cur);
CallOptionToResult ==
    /\ Len(conv.calls) < MaxCalls
    /\ IsOption(conv.cur)
    /\ conv' = [conv EXCEPT !.cur = option_to_result(conv.cur),
                            !.calls = Append(@, "option_to_result")]
    /\ UNCHANGED <<vars, lt, runner, demo, calc, words>>

\* let opt = result_to_option(cur);
CallResultToOption ==
    /\ Len(conv.calls) < MaxCalls
    /\ IsResult(conv.cur)
    /\ conv' = [conv EXCEPT !.cur = result_to_option(conv.cur),
                            !.calls = Append(@, "result_to_option")]
    /\ UNCHANGED <<vars, lt, runner, demo, calc, words>>

ConvNext == CallOptionToResult \/ CallResultToOption

SpecConv == ConvInit /\ [][ConvNext]_allvars

\* The number of references to binding b of one kind in the reference bag rs.
CountOf(rs, b, kind) ==
    LET D == {r \in BagToSet(rs) : r.target = b /\ r.kind = kind}
    IN BagCardinality([r \in D |-> rs[r]])
SharedCount(b) == CountOf(refs, b, "shared")
ExclCount(b) == CountOf(refs, b, "exclusive")
Borrowed(s) == s.st \in {"Shared", "Exclusive"}
Terminal(s) == s \in {Dropped, MovedOut}
Unchanged == table' = table /\ refs' = refs /\ depth' = depth /\ dropLog' = dropLog
UseOps == {"Use", "BorrowShared", "BorrowExclusive", "AssignOrPass", "Clone"}

\* C1: every binding has at most one active exclusive reference, and never an
\* active exclusive reference together with an active shared reference.
C1_AliasingRule ==
    \A b \in Ids :
        /\ ExclCount(b) <= 1
        /\ ~(ExclCount(b) > 0 /\ SharedCount(b) > 0)

\* A second borrow of an exclusively borrowed binding has just been refused.
C1_Witness ==
    /\ last.res = "BorrowConflict"
    /\ ExclCount(last.b) = 1

\* C2: once a binding is moved out it stays moved out, and every later use of
\* it (reading it, borrowing it, assigning or passing it, cloning it) fails
\* with UseAfterMove.
C2_UseAfterMove ==
    [][\A b \in Ids :
          table[b].state = MovedOut =>
              /\ table'[b].state = MovedOut
              /\ (last'.op \in UseOps /\ last'.b = b) => last'.res = "UseAfterMove"]_vars

\* `take_ownership(s1); println!("{}", s1)`: the use after the move is refused.
C2_Witness ==
    /\ last = [op |-> "Use", b |-> last.b, res |-> "UseAfterMove"]
    /\ last.b \in Ids
    /\ table[last.b].state = MovedOut
    /\ table[last.b].type = "String"

\* C3: `&mut` of a binding that is Shared(n > 0) or Exclusive, and `&` of a
\* binding that is Exclusive, fail with BorrowConflict and change neither the
\* binding's state nor the active references.
C3_BorrowConflict ==
    [][/\ (last'.op = "BorrowExclusive" /\ Borrowed(table[last'.b].state))
            => (last'.res = "BorrowConflict" /\ Unchanged)
       /\ (last'.op = "BorrowShared" /\ table[last'.b].state = Exclusive)
            => (last'.res = "BorrowConflict" /\ Unchanged)]_vars

\* r1 and r2 are live shared references when `&mut s` is attempted.
C3_Witness ==
    /\ last.op = "BorrowExclusive" /\ last.res = "BorrowConflict"
    /\ table[last.b].state = Shared(2)
    /\ SharedCount(last.b) = 2

\* C4: a move takes a binding to Moved-out only from Owned; attempted on a
\* borrowed binding it fails with MoveWhileBorrowed and changes nothing; no
\* binding is Moved-out while a reference to it is active.
C4_MoveOnlyFromOwned ==
    [][/\ \A b \in Ids :
            (table[b].state # MovedOut /\ table'[b].state = MovedOut)
                => (table[b].state = Owned /\ last'.op = "AssignOrPass"
                    /\ last'.b = b /\ last'.res = "ok")
       /\ (last'.op = "AssignOrPass" /\ table[last'.b].type = "String")
            => /\ table[last'.b].state = Owned
                   => (last'.res = "ok" /\ table'[last'.b].state = MovedOut)
               /\ Borrowed(table[last'.b].state)
                   => (last'.res = "MoveWhileBorrowed" /\ Unchanged)
       /\ \A r \in BagToSet(refs') : table'[r.target].state # MovedOut]_vars

\* A String is passed by value while a `&` of it is still in use.
C4_Witness ==
    /\ last.op = "AssignOrPass" /\ last.res = "MoveWhileBorrowed"
    /\ table[last.b].state.st = "Shared"
    /\ SharedCount(last.b) >= 1

\* C5: assigning or passing a Copy binding (an i32) leaves its state as it was (an
\* Owned one stays Owned) and a Copy binding is never Moved-out; the same
\* operation, accepted on a Move binding (a String), takes it to Moved-out.
C5_CopyKeepsSource ==
    [][/\ (last'.op = "AssignOrPass" /\ table[last'.b].type = "i32")
            => /\ table'[last'.b].state = table[last'.b].state
               /\ table[last'.b].state = Owned => last'.res = "ok"
       /\ (last'.op = "AssignOrPass" /\ table[last'.b].type = "String"
             /\ last'.res = "ok")
            => table'[last'.b].state = MovedOut
       /\ \A b \in 1..Len(table') :
            table'[b].type = "i32" => table'[b].state # MovedOut]_vars

\* `take_integer(x)`: x is still Owned and the parameter holds a copy.
C5_Witness ==
    /\ last.op = "AssignOrPass" /\ last.res = "ok"
    /\ table[last.b].type = "i32"
    /\ table[last.b].state = Owned
    /\ Len(table) = last.b + 1
    /\ table[Len(table)].val # table[last.b].val

\* The bindings released by the step, in the order of their release.
Released == SubSeq(dropLog', Len(dropLog) + 1, Len(dropLog'))
InSeq(q) == {q[i] : i \in 1..Len(q)}

\* C6: closing a scope drops each of its bindings that is still Owned, latest
\* declaration first; its Moved-out bindings stay Moved-out and release
\* nothing; the bindings of the other scopes are not changed.
C6_ScopeExitDrops ==
    [][(last'.op = "ExitScope" /\ last'.res = "ok") =>
         /\ \A b \in Ids :
              /\ (table[b].scope = depth /\ table[b].state = Owned)
                   => (table'[b].state = Dropped /\ b \in InSeq(Released))
              /\ (table[b].scope = depth /\ table[b].state = MovedOut)
                   => (table'[b].state = MovedOut /\ b \notin InSeq(Released))
              /\ table[b].scope # depth
                   => (table'[b] = table[b] /\ b \notin InSeq(Released))
         /\ \A i, j \in 1..Len(Released) : i < j => Released[i] > Released[j]
         /\ SubSeq(dropLog', 1, Len(dropLog)) = dropLog]_vars

\* Two bindings of one scope have just been dropped, the later one first.
C6_Witness ==
    /\ last.op = "ExitScope" /\ last.res = "ok"
    /\ Len(table) = 2
    /\ table[1].state = Dropped /\ table[2].state = Dropped
    /\ dropLog = <<2, 1>>

\* C7: every active reference points at a binding that is neither Dropped nor
\* Moved-out.
C7_NoDanglingReference ==
    \A r \in BagToSet(refs) :
        /\ r.target \in Ids
        /\ ~Terminal(table[r.target].state)

\* A reference outlives the scope it was taken in (it was handed to the
\* enclosing scope), the scope's own binding is dropped, and the referent
\* lives on.
C7_Witness ==
    /\ last.op = "ExitScope" /\ last.res = "ok"
    /\ refs # EmptyBag
    /\ \E b \in Ids : table[b].state = Dropped

\* The borrow state s of b agrees with the references to b that are active in
\* the reference bag rs.
Agrees(s, rs, b) ==
    /\ IF CountOf(rs, b, "shared") > 0
       THEN s = Shared(CountOf(rs, b, "shared"))
       ELSE s.st # "Shared"
    /\ s = Owned <=> (CountOf(rs, b, "shared") = 0 /\ CountOf(rs, b, "exclusive") = 0
                      /\ ~Terminal(s))

\* C8: a binding is Shared(n) exactly when n >= 1 shared references to it are
\* active and Owned exactly when it is live and unborrowed; a `&` takes Owned
\* to Shared(1) and Shared(n) to Shared(n + 1), the end of a `&` takes
\* Shared(n) to Shared(n - 1) and Shared(1) to Owned, and the owner of a
\* Shared binding can still be read.
C8_SharedCount ==
    [][/\ \A b \in 1..Len(table') : Agrees(table'[b].state, refs', b)
       /\ (last'.op = "BorrowShared" /\ last'.res = "ok")
            => /\ table[last'.b].state.st \in {"Owned", "Shared"}
               /\ table'[last'.b].state = Shared(table[last'.b].state.n + 1)
       /\ last'.op = "EndShared"
            => /\ table[last'.b].state.st = "Shared"
               /\ table'[last'.b].state =
                    IF table[last'.b].state.n = 1 THEN Owned
                    ELSE Shared(table[last'.b].state.n - 1)
       /\ (last'.op \in {"Use", "BorrowShared"} /\ table[last'.b].state.st = "Shared")
            => last'.res = "ok"]_vars

\* Two shared references coexist and the owner has just been read.
C8_Witness ==
    /\ last.op = "Use" /\ last.res = "ok"
    /\ table[last.b].state = Shared(2)
    /\ SharedCount(last.b) = 2

C10_TerminalStates ==
    [][\A b \in Ids :
          Terminal(table[b].state) => table'[b].state = table[b].state]_vars

\* A scope has closed over a Moved-out binding, which is still Moved-out.
C10_Witness ==
    /\ last.op = "ExitScope" /\ last.res = "ok"
    /\ \E b \in Ids : table[b].state = MovedOut /\ table[b].scope = 0

ValsOf(t) == {t[b].val : b \in DOMAIN t}

RECURSIVE Releases(_, _)
Releases(v, k) ==
    IF k = 0 THEN 0
    ELSE Releases(v, k - 1) + (IF table[dropLog[k]].val = v THEN 1 ELSE 0)
Holders(v) == {b \in Ids : table[b].val = v /\ ~Terminal(table[b].state)}

\* C18: no value is released twice; a released value is held by no live
\* binding; a value has at most one live holder; and once the outermost scope
\* has closed every value has been released exactly once.
C18_ReleasedOnce ==
    \A v \in ValsOf(table) :
        /\ Releases(v, Len(dropLog)) <= 1
        /\ Releases(v, Len(dropLog)) = 1 => Holders(v) = {}
        /\ Cardinality(Holders(v)) <= 1
        /\ (depth = 0 /\ last.res = "ok") => Releases(v, Len(dropLog)) = 1

\* `let s = take_and_return(s);` and the end of main: the value was moved
\* from one binding to the next and released once, by the last one.
C18_Witness ==
    /\ depth = 0 /\ last.res = "ok"
    /\ Len(table) = 2
    /\ table[1].state = MovedOut /\ table[2].state = Dropped
    /\ table[2].val = table[1].val
    /\ dropLog = <<2>>

\* The reference parameters the returned value derives from.
FromParams(sig) == sig.from \ {0}
Looked == lt.phase \in {"checked", "called"}

\* C13: a definition whose result derives from two reference parameters of
\* different regions and names no result region is rejected with
\* LifetimeViolation; one whose named result region is the region of every
\* parameter the result derives from is accepted, and at every call the
\* result's region ends no later than those arguments' regions.
C13_LifetimeOfResult ==
    /\ (Looked /\ Len(lt.sig.ins) = 2 /\ lt.sig.from = {1, 2}
          /\ (lt.sig.ins[1] # lt.sig.ins[2] \/ lt.sig.ins[1] = "elided")
          /\ lt.sig.out = "elided")
         => lt.verdict = "LifetimeViolation"
    /\ (Looked /\ lt.sig.out # "elided" /\ FromParams(lt.sig) # {}
          /\ \A i \in FromParams(lt.sig) : lt.sig.ins[i] = lt.sig.out)
         => lt.verdict = "ok"
    /\ lt.phase = "called"
         => \A i \in FromParams(lt.sig) : lt.outEnd <= lt.ends[i]

\* `longest<'a>(x: &'a str, y: &'a str) -> &'a str` called with a longer- and
\* a shorter-lived argument: the result lives as long as the shorter one.
C13_Witness ==
    /\ lt.phase = "called"
    /\ lt.sig = [ins |-> <<"a", "a">>, out |-> "a", from |-> {1, 2}]
    /\ lt.ends = <<2, 1>>
    /\ lt.outEnd = 1

\* What is returned lives for the whole process: a literal, or a parameter
\* of region 'static.
StaticSource(sig, i) == i = 0 \/ sig.ins[i] = "static"

\* C14: what lives for the whole process never causes a LifetimeViolation (a
\* definition is rejected only for a result region that cannot be inferred or
\* for a returned parameter that is not 'static), and a `&'static` result
\* outlives every program point of every call.
C14_StaticExempt ==
    /\ (Looked /\ lt.verdict = "LifetimeViolation")
         => \/ (lt.sig.out = "elided" /\ Len(lt.sig.ins) # 1)
            \/ \E i \in lt.sig.from : ~StaticSource(lt.sig, i)
    /\ (Looked /\ lt.sig.out # "elided"
          /\ \A i \in lt.sig.from : StaticSource(lt.sig, i))
         => lt.verdict = "ok"
    /\ (lt.phase = "called" /\ lt.sig.out = "static")
         => \A p \in 1..MaxPoint : p < lt.outEnd

\* `fn f<'a>(x: &'a str) -> &'static str { "I live forever" }`: accepted, and
\* the result outlives the argument.
C14_Witness ==
    /\ lt.phase = "called"
    /\ lt.sig = [ins |-> <<"a">>, out |-> "static", from |-> {0}]
    /\ lt.ends = <<1>>
    /\ lt.outEnd > MaxPoint

ReturnedFrom(fn) == calc.phase = "returned" /\ calc.fn = fn
Parses(t) == ParseI32(t).tag = "Ok"

\* C17: process_two_numbers returns Ok only when both texts parse; when a
\* does not parse it returns a's error and b is never parsed; it returns b's
\* error exactly when a parses and b does not.
C17_FirstErrorWins ==
    ReturnedFrom("process_two_numbers") =>
        /\ calc.res.tag = "Ok" => (Parses(calc.a) /\ Parses(calc.b))
        /\ ~Parses(calc.a) =>
             (calc.res = ParseI32(calc.a) /\ calc.parsed = <<"a">>)
        /\ (Parses(calc.a) /\ ~Parses(calc.b)) <=>
             (calc.parsed = <<"a", "b">> /\ calc.res.tag = "Err")
        /\ (Parses(calc.a) /\ ~Parses(calc.b)) => calc.res = ParseI32(calc.b)

\* Both texts invalid, for different reasons: the error is the first one's.
C17_Witness ==
    /\ ReturnedFrom("process_two_numbers")
    /\ calc.a = <<>> /\ calc.b = <<"x">>
    /\ calc.res = Err("Empty")
    /\ calc.parsed = <<"a">>

\* The i32 v is the mathematical sum x + y.
ExactSum(x, y, v) == SumFits(x, y) /\ v = x + y

\* C19: for every text that parses as an i32 n, parse_and_double returns
\* Ok(2n), parse_with_custom_error returns Ok(n + 10) and process_two_numbers
\* returns Ok of the exact sum, also near the ends of the 32-bit range.
C19_ExactArithmetic ==
    /\ (ReturnedFrom("parse_and_double") /\ Parses(calc.a)) =>
         /\ calc.res.tag = "Ok"
         /\ ExactSum(ParseI32(calc.a).val, ParseI32(calc.a).val, calc.res.val)
    /\ (ReturnedFrom("parse_with_custom_error") /\ Parses(calc.a)) =>
         /\ calc.res.tag = "Ok"
         /\ ExactSum(ParseI32(calc.a).val, 10, calc.res.val)
    /\ (ReturnedFrom("process_two_numbers") /\ Parses(calc.a) /\ Parses(calc.b)) =>
         /\ calc.res.tag = "Ok"
         /\ ExactSum(ParseI32(calc.a).val, ParseI32(calc.b).val, calc.res.val)

\* The demos among what the runner ran and printed, in order.
DemosRun(out) == SelectSeq(out, LAMBDA e : \E k \in 1..Len(Demos) : Demos[k] = e)
\* What follows the program's name.
Selector(args) == IF Len(args) > 1 THEN args[2] ELSE "none"

\* C16: the runner runs exactly the demos its first argument selects: "1" to
\* "5" the one demo of that number, "all" the five demos once each in the
\* order of the menu; with no argument it prints the menu only, with any
\* other value the invalid-choice message and then the menu; later arguments
\* change nothing.
C16_RunsSelected ==
    runner.phase = "exited" =>
        LET sel == Selector(runner.args)
        IN /\ \A k \in 1..Len(Demos) :
                sel = <<"1", "2", "3", "4", "5">>[k]
                    => runner.out = <<Demos[k]>>
           /\ sel = "all" => DemosRun(runner.out) = Demos
           /\ sel = "none" => runner.out = <<"menu">>
           /\ sel \in {"6", "x"} => runner.out = <<"Invalid choice", "menu">>

HasSpace(t) == \E k \in 1..Len(t) : t[k] = " "

\* r is the part of s before its first space, or s when it has none.
BeforeFirstSpace(s, r) ==
    /\ r.tag = "Ok"
    /\ Len(r.val) <= Len(s) /\ r.val = SubSeq(s, 1, Len(r.val))
    /\ ~HasSpace(r.val)
    /\ IF HasSpace(s) THEN Len(r.val) < Len(s) /\ s[Len(r.val) + 1] = " "
       ELSE r.val = s
    /\ (s # <<>> /\ s[1] = " ") => r.val = <<>>

\* C20: get_first_word and first_word return the prefix of their input that
\* ends just before its first space, the whole input when it has no space
\* (the empty text when it starts with one); the result never contains a
\* space, and the two functions agree.
C20_FirstWord ==
    /\ words.get_first_word # NotCalled
         => BeforeFirstSpace(words.s, words.get_first_word)
    /\ words.first_word # NotCalled
         => BeforeFirstSpace(words.s, words.first_word)
    /\ (words.get_first_word # NotCalled /\ words.first_word # NotCalled)
         => words.get_first_word = words.first_word

\* A two-byte letter, a space, a letter: both return the two-byte letter.
C20_Witness ==
    /\ words.s = <<"e-acute", " ", "a">>
    /\ words.get_first_word = Ok(<<"e-acute">>)
    /\ words.first_word = Ok(<<"e-acute">>)

\* The headings printed so far, by example number.
Headings(out) ==
    [k \in 1..Len(SelectSeq(out, LAMBDA l : l.kind = "header")) |->
        SelectSeq(out, LAMBDA l : l.kind = "header")[k].ex]
Printed(out, line) == \E k \in 1..Len(out) : out[k] = line
\* The driver has returned after printing every example, in order.
RanToTheEnd ==
    /\ demo.pc = Finished
    /\ Headings(demo.out) = [k \in 1..LastExample |-> k]
\* read_file_contents has returned an error to the driver.
FileError == demo.pc > 3 /\ demo.file.res.tag = "Err"

\* C15: read_file_contents returns the open error without attempting a read
\* when the file cannot be opened, and the read error when reading fails; for
\* each such outcome, and for the text that does not parse, the driver
\* prints the cause, never aborts, and runs its remaining examples to the end.
C15_ErrorsPropagate ==
    /\ [](demo.pc # Aborted)
    /\ [](demo.pc > 3 =>
            /\ demo.fs.open # "ok" =>
                 /\ demo.file = [calls |-> <<"open">>, res |-> Err(demo.fs.open)]
                 /\ Printed(demo.out, Line(3, "err", demo.fs.open))
            /\ (demo.fs.open = "ok" /\ demo.fs.read # "ok") =>
                 /\ demo.file = [calls |-> <<"open", "read_to_string">>,
                                 res |-> Err(demo.fs.read)]
                 /\ Printed(demo.out, Line(3, "err", demo.fs.read)))
    /\ [](demo.pc > 5 => Printed(demo.out, Line(5, "err", "InvalidDigit")))
    /\ (FileError ~> RanToTheEnd)
    /\ <>RanToTheEnd

\* The file is missing: the driver has printed the cause and all eleven
\* examples.
C15_Witness ==
    /\ RanToTheEnd
    /\ demo.fs.open = "NotFound"
    /\ demo.file = [calls |-> <<"open">>, res |-> Err("NotFound")]
    /\ Printed(demo.out, Line(3, "err", "NotFound"))

\* x is the Result Err with the message e.
IsErr(x, e) == x.tag = "Err" /\ x.val = e

\* C21: the conversions round-trip.  An optional integer comes back unchanged
\* from option_to_result then result_to_option, None passing through the
\* error "Value was None"; a result taken through result_to_option then
\* option_to_result comes back as Ok of the same value when it was Ok, and as
\* the error "Value was None" when it was any error.
C21_RoundTrip ==
    /\ (IsOption(conv.start) /\ conv.start = None /\ Len(conv.calls) = 1)
         => IsErr(conv.cur, "Value was None")
    /\ (IsOption(conv.start) /\ Len(conv.calls) = 2)
         => (IsOption(conv.cur) /\ conv.cur = conv.start)
    /\ (IsResult(conv.start) /\ Len(conv.calls) = 2)
         => IF conv.start.tag = "Ok"
            THEN conv.cur.tag = "Ok" /\ conv.cur.val = conv.start.val
            ELSE IsErr(conv.cur, "Value was None")

\* An error with a cause of its own has come back as "Value was None".
C21_Witness ==
    /\ conv.calls = <<"result_to_option", "option_to_result">>
    /\ IsErr(conv.start, "Something went wrong")
    /\ IsErr(conv.cur, "Value was None")
====
